---- MODULE Spec2Model ----
(***************************************************************************)
(* A state-machine model of two adapters of the repository:                *)
(*   - HdPrmanRenderDelegate (third_party/renderman-24/plugin/hdPrman/     *)
(*     renderDelegate.cpp): render settings and their version counter,     *)
(*     the Rprim/Sprim/Bprim factories with the scene light count, and     *)
(*     the Stop/Restart/IsStopped render lifecycle control;                *)
(*   - the Python facade of UsdImagingGLEngine (pxr/usdImaging/            *)
(*     usdImagingGL/wrapEngine.cpp): _TestIntersection and                 *)
(*     _SetOverrideWindowPolicy.                                           *)
(***************************************************************************)
EXTENDS Integers, Sequences, FiniteSets, Bags, TLC

VARIABLES
    env,                 \* process environment read once by _Initialize
    settingsMap,         \* HdRenderDelegate::_settingsMap  (key -> VtValue)
    settingsVersion,     \* HdRenderDelegate::_settingsVersion
    settingDescriptors,  \* HdRenderDelegate::_settingDescriptors
    prims,               \* bag of the prims created and not yet destroyed
    sceneLightCount,     \* HdPrman_RenderParam::_sceneLightCount
    sceneVersion,        \* HdPrman_RenderParam::sceneVersion
    isRendering,         \* HdPrman_RenderParam::IsRendering()
    stopRequest,         \* last stop request forwarded to the render loop
    lastRenderedVersion, \* scene version the render pass last started from
    ret,                 \* the last call of the delegate and what it returned
    engineHit,           \* out-parameters of UsdImagingGLEngine::TestIntersection
    pyResult,            \* tuple returned to Python by _TestIntersection
    pyObj,               \* last argument given to _SetOverrideWindowPolicy
    overrideWindowPolicy,\* pair last given to the engine's SetOverrideWindowPolicy
    calls                \* a client's log of its last SetRenderSetting calls

vars == <<env, settingsMap, settingsVersion, settingDescriptors, prims,
          sceneLightCount, sceneVersion, isRendering, stopRequest,
          lastRenderedVersion, ret, engineHit, pyResult, pyObj,
          overrideWindowPolicy, calls>>

settingsVars == <<settingsMap, settingsVersion>>
primVars     == <<prims, sceneLightCount>>
loopVars     == <<sceneVersion, isRendering, stopRequest, lastRenderedVersion>>
facadeVars   == <<engineHit, pyResult, pyObj, overrideWindowPolicy>>

----------------------------------------------------------------------------
(* Bounds of the model *)

\* cap of the settings version counter
MaxVersion == 3
\* most prims alive at once
MaxLive == 2
\* cap of the scene version counter
MaxSceneVersion == 2
\* how far the light count may be driven below zero
MaxDeficit == 1
\* longest instancer context the engine reports
MaxCtx == 2

----------------------------------------------------------------------------
(* VtValue: a typed dynamic value *)

VtBool(b)   == [type |-> "bool",   val |-> IF b THEN "true" ELSE "false"]
VtInt(s)    == [type |-> "int",    val |-> s]
VtFloat(s)  == [type |-> "float",  val |-> s]
VtString(s) == [type |-> "string", val |-> s]

VtNaN == VtFloat("nan")

\* operator== of VtValue: same held type and held values compare equal with
\* the held type's ==; an IEEE NaN is equal to nothing, itself included.
VtValueEq(a, b) ==
    /\ a.type = b.type
    /\ a.val = b.val
    /\ ~(a.type = "float" /\ a.val = "nan")

\* values handed to SetRenderSetting
Values == {VtBool(TRUE), VtBool(FALSE), VtInt("200"), VtNaN}

\* the values handed to SetRenderSetting next to the lifecycle operations
BoolValues == {VtBool(TRUE), VtBool(FALSE)}

----------------------------------------------------------------------------
(* Render settings *)

\* keys handed to SetRenderSetting
Keys == {"enableInteractive", "disableMotionBlur", "interactiveIntegratorTimeout"}

\* process environments: HD_PRMAN_ENABLE_QUICKINTEGRATE, HD_PRMAN_INTEGRATOR,
\* HD_PRMAN_MAX_SAMPLES and RILEY_VARIANT
Envs ==
    [quickIntegrate : BOOLEAN,
     integrator     : {"", "PxrVisualizer"},
     maxSamples     : {"64"},
     rileyVariant   : {""}]

EmptyMap == [k \in {} |-> VtBool(FALSE)]

\* settings maps handed to the constructor
InitialMaps ==
    {EmptyMap, [k \in {"enableInteractive"} |-> VtBool(FALSE)]}

\* _settingsMap[key] = value
MapSet(map, key, value) ==
    [k \in (DOMAIN map) \cup {key} |-> IF k = key THEN value ELSE map[k]]

Descriptor(name, key, defaultValue) ==
    [name |-> name, key |-> key, defaultValue |-> defaultValue]

\* a descriptor list with the quick-integrate entries appended last
_Initialize_QuickLast(e) ==
    LET integrator == IF e.integrator # "" THEN e.integrator ELSE "PxrPathTracer"
    IN  <<Descriptor("Integrator", "integratorName", VtString(integrator)),
          Descriptor("Max Samples", "convergedSamplesPerPixel",
                     VtInt(e.maxSamples)),
          Descriptor("Variance Threshold", "convergedVariance",
                     VtFloat("0.001")),
          Descriptor("Riley variant", "rileyVariant",
                     VtString(e.rileyVariant)),
          Descriptor("Disable motion blur", "disableMotionBlur",
                     VtBool(FALSE))>>
        \o (IF e.quickIntegrate
              THEN <<Descriptor("Interactive Integrator", "interactiveIntegrator",
                                VtString("PxrDirectLighting")),
                     Descriptor("Interactive Integrator Timeout (ms)",
                                "interactiveIntegratorTimeout", VtInt("200"))>>
              ELSE <<>>)

\* the descriptor list _Initialize builds
_Initialize(e) ==
    LET integrator == IF e.integrator # "" THEN e.integrator ELSE "PxrPathTracer"
    IN  <<Descriptor("Integrator", "integratorName", VtString(integrator))>>
        \o (IF e.quickIntegrate
              THEN <<Descriptor("Interactive Integrator", "interactiveIntegrator",
                                VtString("PxrDirectLighting")),
                     Descriptor("Interactive Integrator Timeout (ms)",
                                "interactiveIntegratorTimeout", VtInt("200"))>>
              ELSE <<>>)
        \o <<Descriptor("Max Samples", "convergedSamplesPerPixel",
                        VtInt(e.maxSamples)),
             Descriptor("Variance Threshold", "convergedVariance",
                        VtFloat("0.001")),
             Descriptor("Riley variant", "rileyVariant",
                        VtString(e.rileyVariant)),
             Descriptor("Disable motion blur", "disableMotionBlur",
                        VtBool(FALSE))>>

\* HdRenderDelegate::_PopulateDefaultSettings: a descriptor's default is
\* stored under its key unless the map already holds the key
RECURSIVE _PopulateDefaultSettings(_, _)
_PopulateDefaultSettings(map, descs) ==
    IF descs = <<>> THEN map
    ELSE LET d == Head(descs)
             m == IF d.key \in DOMAIN map THEN map
                  ELSE MapSet(map, d.key, d.defaultValue)
         IN  _PopulateDefaultSettings(m, Tail(descs))

\* HdRenderDelegate::GetRenderSetting<bool>(key, defValue)
GetRenderSettingBool(map, key, defValue) ==
    IF key \in DOMAIN map /\ map[key].type = "bool"
    THEN map[key].val = "true"
    ELSE defValue

IsInteractive == GetRenderSettingBool(settingsMap, "enableInteractive", TRUE)

----------------------------------------------------------------------------
(* Results of calls *)

NullPrim == [base |-> "null", cls |-> "null", type |-> "", id |-> ""]

\* the last call: obj is the object a factory returned, val the result of
\* a boolean operation, err whether a coding error was reported
Ret(op, obj, err, val) == [op |-> op, obj |-> obj, err |-> err, val |-> val]

----------------------------------------------------------------------------
(* SetRenderSetting *)

\* a version counter that counts every call
SetRenderSettingVersion_EveryCall(map, version, key, value) == version + 1

\* a version counter that counts only the calls that add a key
SetRenderSettingVersion_NewKeys(map, version, key, value) ==
    IF key \in DOMAIN map THEN version ELSE version + 1

\* the version counter after SetRenderSetting(key, value)
SetRenderSettingVersion(map, version, key, value) ==
    IF key \in DOMAIN map
    THEN IF ~VtValueEq(value, map[key]) THEN version + 1 ELSE version
    ELSE version + 1

SetRenderSetting(key, value) ==
    /\ SetRenderSettingVersion(settingsMap, settingsVersion, key, value)
           <= MaxVersion
    /\ settingsVersion' =
           SetRenderSettingVersion(settingsMap, settingsVersion, key, value)
    /\ settingsMap' = MapSet(settingsMap, key, value)
    /\ ret' = Ret("SetRenderSetting", NullPrim, FALSE, FALSE)
    /\ UNCHANGED <<env, settingDescriptors, primVars, loopVars, facadeVars>>

----------------------------------------------------------------------------
(* Prim factories *)

SUPPORTED_RPRIM_TYPES == <<"mesh", "basisCurves", "points", "volume">>

SUPPORTED_SPRIM_TYPES ==
    <<"camera", "material", "distantLight", "domeLight", "light",
      "lightFilter", "rectLight", "diskLight", "cylinderLight", "sphereLight",
      "pluginLight", "extComputation", "coordSys", "prmanParams">>

SUPPORTED_BPRIM_TYPES == <<"renderBuffer", "openvdbAsset", "field3dAsset">>

Range(seq) == {seq[i] : i \in DOMAIN seq}

\* a prim type of the host framework that the delegate does not support
UnsupportedTags == {"simpleLight"}

\* every type tag of the model
TypeTags ==
    Range(SUPPORTED_RPRIM_TYPES) \cup Range(SUPPORTED_SPRIM_TYPES)
        \cup Range(SUPPORTED_BPRIM_TYPES) \cup UnsupportedTags

\* one supported tag of each kind, and an unsupported one
FewTags == {"mesh", "camera", "light", "renderBuffer", "simpleLight"}

\* type tags handed to a factory: every tag of its supported-type list, and
\* tags of the other kinds
TagsFor(supported) == Range(supported) \cup FewTags

\* SdfPath::EmptyPath() / SdfPath()
EmptyPath == ""

\* scene paths handed to the factories
Paths == {EmptyPath, "/World/A"}

Prim(base, cls, type, id) ==
    [base |-> base, cls |-> cls, type |-> type, id |-> id]

\* the condition of the light branch of CreateSprim / CreateFallbackSprim
IsLightType(typeId) ==
    \/ typeId = "light"
    \/ typeId = "distantLight"
    \/ typeId = "domeLight"
    \/ typeId = "rectLight"
    \/ typeId = "diskLight"
    \/ typeId = "cylinderLight"
    \/ typeId = "sphereLight"
    \/ typeId = "pluginLight"

\* the object CreateRprim returns
NewRprim(typeId, rprimId) ==
    IF typeId = "mesh" THEN Prim("HdRprim", "HdPrman_Mesh", typeId, rprimId)
    ELSE IF typeId = "basisCurves"
        THEN Prim("HdRprim", "HdPrman_BasisCurves", typeId, rprimId)
    ELSE IF typeId = "points"
        THEN Prim("HdRprim", "HdPrman_Points", typeId, rprimId)
    ELSE IF typeId = "volume"
        THEN Prim("HdRprim", "HdPrman_Volume", typeId, rprimId)
    ELSE NullPrim

\* the object CreateSprim returns
NewSprim(typeId, sprimId) ==
    IF typeId = "camera" THEN Prim("HdSprim", "HdPrmanCamera", typeId, sprimId)
    ELSE IF typeId = "material"
        THEN Prim("HdSprim", "HdPrmanMaterial", typeId, sprimId)
    ELSE IF typeId = "coordSys"
        THEN Prim("HdSprim", "HdPrmanCoordSys", typeId, sprimId)
    ELSE IF typeId = "lightFilter"
        THEN Prim("HdSprim", "HdPrmanLightFilter", typeId, sprimId)
    ELSE IF IsLightType(typeId)
        THEN Prim("HdSprim", "HdPrmanLight", typeId, sprimId)
    ELSE IF typeId = "extComputation"
        THEN Prim("HdSprim", "HdExtComputation", typeId, sprimId)
    ELSE IF typeId = "prmanParams"
        THEN Prim("HdSprim", "HdPrmanParamsSetter", typeId, sprimId)
    ELSE NullPrim

\* the object CreateFallbackSprim returns
NewFallbackSprim(typeId) ==
    IF typeId = "camera"
        THEN Prim("HdSprim", "HdPrmanCamera", typeId, EmptyPath)
    ELSE IF typeId = "material"
        THEN Prim("HdSprim", "HdPrmanMaterial", typeId, EmptyPath)
    ELSE IF typeId = "coordSys"
        THEN Prim("HdSprim", "HdPrmanCoordSys", typeId, EmptyPath)
    ELSE IF typeId = "lightFilter"
        THEN Prim("HdSprim", "HdPrmanLightFilter", typeId, EmptyPath)
    ELSE IF IsLightType(typeId)
        THEN Prim("HdSprim", "HdPrmanLight", typeId, EmptyPath)
    ELSE IF typeId = "extComputation"
        THEN Prim("HdSprim", "HdExtComputation", typeId, EmptyPath)
    ELSE IF typeId = "prmanParams"
        THEN Prim("HdSprim", "HdPrmanParamsSetter", typeId, EmptyPath)
    ELSE NullPrim

\* a Bprim factory that does not know field3dAsset
NewBprim_NoField3d(typeId, bprimId) ==
    IF typeId = "openvdbAsset"
        THEN Prim("HdBprim", "HdPrman_Field", typeId, bprimId)
    ELSE IF typeId = "renderBuffer"
        THEN Prim("HdBprim", "HdPrmanRenderBuffer", typeId, bprimId)
    ELSE NullPrim

\* the object CreateBprim returns
NewBprim(typeId, bprimId) ==
    IF typeId = "openvdbAsset" \/ typeId = "field3dAsset"
        THEN Prim("HdBprim", "HdPrman_Field", typeId, bprimId)
    ELSE IF typeId = "renderBuffer"
        THEN Prim("HdBprim", "HdPrmanRenderBuffer", typeId, bprimId)
    ELSE NullPrim

\* the object CreateFallbackBprim returns
NewFallbackBprim(typeId) ==
    IF typeId = "openvdbAsset" \/ typeId = "field3dAsset"
        THEN Prim("HdBprim", "HdPrman_Field", typeId, EmptyPath)
    ELSE IF typeId = "renderBuffer"
        THEN Prim("HdBprim", "HdPrmanRenderBuffer", typeId, EmptyPath)
    ELSE NullPrim

\* the caller takes ownership of a returned object
Own(obj) == IF obj = NullPrim THEN prims ELSE prims (+) SetToBag({obj})

\* the caller gives up the object it hands to a Destroy operation
Disown(obj) == prims (-) SetToBag({obj})

Live(base) == {o \in BagToSet(prims) : o.base = base}

\* HdPrman_RenderParam::IncreaseSceneLightCount / DecreaseSceneLightCount
IncreaseSceneLightCount(n) == n + 1
DecreaseSceneLightCount(n) == n - 1

\* a light count that counts the lights of empty path too
CreateSprimLightCount_CountsFallback(n, typeId, sprimId) ==
    IF IsLightType(typeId) THEN IncreaseSceneLightCount(n) ELSE n

\* the light count after CreateSprim(typeId, sprimId)
CreateSprimLightCount(n, typeId, sprimId) ==
    IF IsLightType(typeId) /\ NewSprim(typeId, sprimId).id # EmptyPath
    THEN IncreaseSceneLightCount(n)
    ELSE n

\* a light count that every destroyed Sprim lowers
DestroySprimLightCount_Always(n, sprim) == DecreaseSceneLightCount(n)

\* the light count after DestroySprim(sprim)
DestroySprimLightCount(n, sprim) ==
    IF sprim.id # EmptyPath THEN DecreaseSceneLightCount(n) ELSE n

CreateRprim(typeId, rprimId) ==
    LET rprim == NewRprim(typeId, rprimId)
    IN  /\ ret' = Ret("CreateRprim", rprim, rprim = NullPrim, FALSE)
        /\ BagCardinality(prims) < MaxLive
        /\ prims' = Own(rprim)
        /\ UNCHANGED <<env, settingDescriptors, settingsVars, sceneLightCount,
                       loopVars, facadeVars, calls>>

DestroyRprim(rPrim) ==
    /\ rPrim \in Live("HdRprim")
    /\ prims' = Disown(rPrim)
    /\ ret' = Ret("DestroyRprim", NullPrim, FALSE, FALSE)
    /\ UNCHANGED <<env, settingDescriptors, settingsVars, sceneLightCount,
                   loopVars, facadeVars, calls>>

CreateSprim(typeId, sprimId) ==
    LET sprim == NewSprim(typeId, sprimId)
    IN  /\ ret' = Ret("CreateSprim", sprim, sprim = NullPrim, FALSE)
        /\ BagCardinality(prims) < MaxLive
        /\ prims' = Own(sprim)
        /\ sceneLightCount' =
               CreateSprimLightCount(sceneLightCount, typeId, sprimId)
        /\ UNCHANGED <<env, settingDescriptors, settingsVars, loopVars,
                       facadeVars, calls>>

CreateFallbackSprim(typeId) ==
    LET sprim == NewFallbackSprim(typeId)
    IN  /\ ret' = Ret("CreateFallbackSprim", sprim, sprim = NullPrim, FALSE)
        /\ BagCardinality(prims) < MaxLive
        /\ prims' = Own(sprim)
        /\ UNCHANGED <<env, settingDescriptors, settingsVars, sceneLightCount,
                       loopVars, facadeVars, calls>>

DestroySprim(sprim) ==
    /\ sprim \in Live("HdSprim")
    /\ DestroySprimLightCount(sceneLightCount, sprim) >= 0 - MaxDeficit
    /\ sceneLightCount' = DestroySprimLightCount(sceneLightCount, sprim)
    /\ prims' = Disown(sprim)
    /\ ret' = Ret("DestroySprim", NullPrim, FALSE, FALSE)
    /\ UNCHANGED <<env, settingDescriptors, settingsVars, loopVars, facadeVars, calls>>

CreateBprim(typeId, bprimId) ==
    LET bprim == NewBprim(typeId, bprimId)
    IN  /\ ret' = Ret("CreateBprim", bprim, bprim = NullPrim, FALSE)
        /\ BagCardinality(prims) < MaxLive
        /\ prims' = Own(bprim)
        /\ UNCHANGED <<env, settingDescriptors, settingsVars, sceneLightCount,
                       loopVars, facadeVars, calls>>

CreateFallbackBprim(typeId) ==
    LET bprim == NewFallbackBprim(typeId)
    IN  /\ ret' = Ret("CreateFallbackBprim", bprim, bprim = NullPrim, FALSE)
        /\ BagCardinality(prims) < MaxLive
        /\ prims' = Own(bprim)
        /\ UNCHANGED <<env, settingDescriptors, settingsVars, sceneLightCount,
                       loopVars, facadeVars, calls>>

DestroyBprim(bPrim) ==
    /\ bPrim \in Live("HdBprim")
    /\ prims' = Disown(bPrim)
    /\ ret' = Ret("DestroyBprim", NullPrim, FALSE, FALSE)
    /\ UNCHANGED <<env, settingDescriptors, settingsVars, sceneLightCount,
                   loopVars, facadeVars, calls>>

----------------------------------------------------------------------------
(* Render lifecycle control *)

\* HdPrman_RenderParam::StopRender(blocking) followed by IsRendering(): the
\* values IsRendering() can have once the request is made.  A loop that is
\* not rendering stays halted; a blocking request returns only when the
\* loop has halted; a non-blocking request is advisory, the loop halts when
\* it observes it, before or after IsRendering() is read.
StopRender(blocking) ==
    IF ~isRendering THEN {FALSE}
    ELSE IF blocking THEN {FALSE}
    ELSE {TRUE, FALSE}

StopRequest(blocking) == IF blocking THEN "blocking" ELSE "nonblocking"

IsStopSupported ==
    /\ ret' = Ret("IsStopSupported", NullPrim, FALSE,
                  IF IsInteractive THEN TRUE ELSE FALSE)
    /\ UNCHANGED <<env, settingDescriptors, settingsVars, primVars, loopVars,
                   facadeVars, calls>>

IsStopped ==
    /\ ret' = Ret("IsStopped", NullPrim, FALSE,
                  IF IsInteractive THEN ~isRendering ELSE TRUE)
    /\ UNCHANGED <<env, settingDescriptors, settingsVars, primVars, loopVars,
                   facadeVars, calls>>

\* a Stop that never blocks
Stop_NeverBlocks(blocking) ==
    /\ IF IsInteractive
       THEN /\ isRendering' \in StopRender(FALSE)
            /\ stopRequest' = StopRequest(FALSE)
            /\ ret' = Ret("Stop", NullPrim, FALSE, ~isRendering')
       ELSE /\ ret' = Ret("Stop", NullPrim, FALSE, TRUE)
            /\ UNCHANGED <<isRendering, stopRequest>>
    /\ UNCHANGED <<env, settingDescriptors, settingsVars, primVars,
                   sceneVersion, lastRenderedVersion, facadeVars, calls>>

Stop(blocking) ==
    /\ IF IsInteractive
       THEN /\ isRendering' \in StopRender(blocking)
            /\ stopRequest' = StopRequest(blocking)
            /\ ret' = Ret("Stop", NullPrim, FALSE, ~isRendering')
       ELSE /\ ret' = Ret("Stop", NullPrim, FALSE, TRUE)
            /\ UNCHANGED <<isRendering, stopRequest>>
    /\ UNCHANGED <<env, settingDescriptors, settingsVars, primVars,
                   sceneVersion, lastRenderedVersion, facadeVars, calls>>

\* a Restart that does not ask whether the delegate is interactive
Restart_Unchecked ==
    /\ sceneVersion < MaxSceneVersion
    /\ sceneVersion' = sceneVersion + 1
    /\ ret' = Ret("Restart", NullPrim, FALSE, TRUE)
    /\ UNCHANGED <<env, settingDescriptors, settingsVars, primVars,
                   isRendering, stopRequest, lastRenderedVersion, facadeVars, calls>>

\* a Restart that starts the render itself
Restart_StartsRender ==
    /\ IF IsInteractive
       THEN /\ sceneVersion < MaxSceneVersion
            /\ sceneVersion' = sceneVersion + 1
            /\ isRendering' = TRUE
            /\ ret' = Ret("Restart", NullPrim, FALSE, TRUE)
       ELSE /\ ret' = Ret("Restart", NullPrim, FALSE, FALSE)
            /\ UNCHANGED <<sceneVersion, isRendering>>
    /\ UNCHANGED <<env, settingDescriptors, settingsVars, primVars,
                   stopRequest, lastRenderedVersion, facadeVars, calls>>

Restart ==
    /\ IF IsInteractive
       THEN /\ sceneVersion < MaxSceneVersion
            /\ sceneVersion' = sceneVersion + 1
            /\ ret' = Ret("Restart", NullPrim, FALSE, TRUE)
       ELSE /\ ret' = Ret("Restart", NullPrim, FALSE, FALSE)
            /\ UNCHANGED sceneVersion
    /\ UNCHANGED <<env, settingDescriptors, settingsVars, primVars,
                   isRendering, stopRequest, lastRenderedVersion, facadeVars, calls>>

\* HdPrman_RenderPass::_Execute of an interactive delegate: a scene version
\* other than the one last rendered starts a fresh render
RenderPassExecute ==
    /\ IsInteractive
    /\ lastRenderedVersion # sceneVersion
    /\ isRendering' = TRUE
    /\ stopRequest' = "none"
    /\ lastRenderedVersion' = sceneVersion
    /\ UNCHANGED <<env, settingDescriptors, settingsVars, primVars,
                   sceneVersion, ret, facadeVars, calls>>

\* the render loop halts: it converged, or it observed a stop request
RenderLoopHalt ==
    /\ isRendering
    /\ isRendering' = FALSE
    /\ UNCHANGED <<env, settingDescriptors, settingsVars, primVars,
                   sceneVersion, stopRequest, lastRenderedVersion, ret,
                   facadeVars, calls>>

----------------------------------------------------------------------------
(* Python facade of UsdImagingGLEngine *)

SeqsUpTo(S, n) == UNION {[1..k -> S] : k \in 0..n}

\* HdInstancerContext: (instancer path, instance index) pairs, outermost first
InstancerContexts == SeqsUpTo({"/pathA", "/pathB"} \X {3, 7}, MaxCtx)

\* what UsdImagingGLEngine::TestIntersection writes to its out-parameters
EngineHits ==
    [hitPoint         : {<<0, 0, 0>>, <<1, 2, 3>>},
     hitNormal        : {<<0, 0, 1>>},
     hitPrimPath      : {"", "/World/A"},
     hitInstancerPath : {"/World/I"},
     hitInstanceIndex : {-1, 5},
     context          : InstancerContexts]

\* a flattening that surfaces the innermost entry of the context
_TestIntersection_Innermost(hit) ==
    LET n == Len(hit.context)
    IN  <<hit.hitPoint, hit.hitNormal, hit.hitPrimPath, hit.hitInstanceIndex,
          IF n > 0 THEN hit.context[n][1] ELSE EmptyPath,
          IF n > 0 THEN hit.context[n][2] ELSE -1>>

\* the tuple _TestIntersection builds from the out-parameters
_TestIntersection(hit) ==
    LET topLevelPath ==
            IF Len(hit.context) > 0 THEN hit.context[1][1] ELSE EmptyPath
        topLevelInstanceIndex ==
            IF Len(hit.context) > 0 THEN hit.context[1][2] ELSE -1
    IN  <<hit.hitPoint, hit.hitNormal, hit.hitPrimPath, hit.hitInstanceIndex,
          topLevelPath, topLevelInstanceIndex>>

TestIntersection(hit) ==
    /\ engineHit' = hit
    /\ pyResult' = _TestIntersection(hit)
    /\ UNCHANGED <<env, settingDescriptors, settingsVars, primVars, loopVars,
                   ret, pyObj, overrideWindowPolicy, calls>>

\* values of CameraUtilConformWindowPolicy passed from Python
Policies == {"CameraUtilMatchVertically", "CameraUtilFit", "CameraUtilCrop"}

CameraUtilFit == "CameraUtilFit"

\* Python objects: a wrapped policy value, None, an int, a str
PyPolicy(p) == [kind |-> "policy", val |-> p]
PyNone      == [kind |-> "none",   val |-> ""]
PyInt(s)    == [kind |-> "int",    val |-> s]
PyStr(s)    == [kind |-> "str",    val |-> s]

\* no call of _SetOverrideWindowPolicy yet
NoPyObj == [kind |-> "nocall", val |-> ""]

PyObjects ==
    {PyPolicy(p) : p \in Policies}
        \cup {PyNone, PyInt("0"), PyStr("CameraUtilFit")}

\* extract<CameraUtilConformWindowPolicy>(pyObj).check(): the object is a
\* wrapped value of the enum
ExtractorCheck(obj) == obj.kind = "policy"

\* extractor(): the enum value of an object that passes the check
Extractor(obj) == obj.val

\* a setter that turns every non-policy argument into an active override
\* with the default policy
_SetOverrideWindowPolicy_DefaultOverride(obj) ==
    IF ExtractorCheck(obj)
    THEN <<TRUE, Extractor(obj)>>
    ELSE <<TRUE, CameraUtilFit>>

\* the pair _SetOverrideWindowPolicy gives to the engine
_SetOverrideWindowPolicy(obj) ==
    IF ExtractorCheck(obj)
    THEN <<TRUE, Extractor(obj)>>
    ELSE <<FALSE, CameraUtilFit>>

SetOverrideWindowPolicy(obj) ==
    /\ pyObj' = obj
    /\ overrideWindowPolicy' = _SetOverrideWindowPolicy(obj)
    /\ UNCHANGED <<env, settingDescriptors, settingsVars, primVars, loopVars,
                   ret, engineHit, pyResult, calls>>

----------------------------------------------------------------------------
(* Construction *)

EmptyHit ==
    [hitPoint |-> <<0, 0, 0>>, hitNormal |-> <<0, 0, 0>>, hitPrimPath |-> "",
     hitInstancerPath |-> "", hitInstanceIndex |-> -1, context |-> <<>>]

\* the state the constructor leaves: the descriptors and the defaults of
\* _Initialize over the settings map handed in; HdRenderDelegate starts the
\* settings version at 1; the render param starts halted at scene version 0
\* with nothing rendered yet
Init ==
    /\ env \in Envs
    /\ settingDescriptors = _Initialize(env)
    /\ \E m \in InitialMaps :
           settingsMap = _PopulateDefaultSettings(m, _Initialize(env))
    /\ settingsVersion = 1
    /\ prims = EmptyBag
    /\ sceneLightCount = 0
    /\ sceneVersion = 0
    /\ isRendering = FALSE
    /\ stopRequest = "none"
    /\ lastRenderedVersion = -1
    /\ ret = Ret("construct", NullPrim, FALSE, FALSE)
    /\ engineHit = EmptyHit
    /\ pyResult = <<>>
    /\ pyObj = NoPyObj
    /\ overrideWindowPolicy = <<FALSE, CameraUtilFit>>
    /\ calls = <<>>


\* no entry under a key
Absent == [type |-> "absent", val |-> ""]

LastThree(seq) == IF Len(seq) > 3 THEN Tail(seq) ELSE seq

\* a client that logs each SetRenderSetting call: the key, the value, the
\* value GetRenderSetting(key) gave before the call and the change of
\* GetRenderSettingsVersion() over the call
LoggedSetRenderSetting(key, value) ==
    /\ SetRenderSetting(key, value)
    /\ calls' = LastThree(Append(calls,
           [key   |-> key,
            value |-> value,
            prior |-> IF key \in DOMAIN settingsMap THEN settingsMap[key]
                      ELSE Absent,
            delta |-> settingsVersion' - settingsVersion]))

NextSettings == \E k \in Keys, v \in Values : LoggedSetRenderSetting(k, v)

SpecSettings == Init /\ [][NextSettings]_vars

\* the lifecycle operations, with the render pass and the render loop
NextLifecycle ==
    \/ \E v \in BoolValues :
           SetRenderSetting("enableInteractive", v) /\ UNCHANGED calls
    \/ IsStopSupported
    \/ IsStopped
    \/ \E blocking \in BOOLEAN : Stop(blocking)
    \/ Restart
    \/ RenderPassExecute
    \/ RenderLoopHalt

SpecLifecycle == Init /\ [][NextLifecycle]_vars

\* type tags handed to the factories next to the other operations
SomeTags == {"mesh", "light", "renderBuffer", "simpleLight"}

\* the caller of the factories holds no prim
NoPrims == prims = EmptyBag

\* every operation of the delegate, with its collaborators; the factories
\* are called by a caller that holds one prim at a time
Next ==
    \/ \E v \in Values :
           SetRenderSetting("enableInteractive", v) /\ UNCHANGED calls
    \/ IsStopSupported
    \/ IsStopped
    \/ \E blocking \in BOOLEAN : Stop(blocking)
    \/ Restart
    \/ RenderPassExecute
    \/ RenderLoopHalt
    \/ \E t \in SomeTags, p \in Paths : NoPrims /\ CreateRprim(t, p)
    \/ \E o \in Live("HdRprim") : DestroyRprim(o)
    \/ \E t \in SomeTags, p \in Paths : NoPrims /\ CreateSprim(t, p)
    \/ \E t \in SomeTags : NoPrims /\ CreateFallbackSprim(t)
    \/ \E o \in Live("HdSprim") : DestroySprim(o)
    \/ \E t \in SomeTags, p \in Paths : NoPrims /\ CreateBprim(t, p)
    \/ \E t \in SomeTags : NoPrims /\ CreateFallbackBprim(t)
    \/ \E o \in Live("HdBprim") : DestroyBprim(o)

\* construction in a process that does not set HD_PRMAN_INTEGRATOR
InitDefaultIntegrator == Init /\ env.integrator = ""

\* construction with an empty settings map, quick integrate not enabled
InitPlain ==
    /\ InitDefaultIntegrator
    /\ ~env.quickIntegrate
    /\ "enableInteractive" \notin DOMAIN settingsMap

Spec == InitDefaultIntegrator /\ [][Next]_vars

\* the factories, called with supported and unsupported type tags
NextPrims ==
    \/ \E t \in TagsFor(SUPPORTED_RPRIM_TYPES), p \in Paths : CreateRprim(t, p)
    \/ \E o \in Live("HdRprim") : DestroyRprim(o)
    \/ \E t \in TagsFor(SUPPORTED_SPRIM_TYPES), p \in Paths : CreateSprim(t, p)
    \/ \E t \in TagsFor(SUPPORTED_SPRIM_TYPES) : CreateFallbackSprim(t)
    \/ \E o \in Live("HdSprim") : DestroySprim(o)
    \/ \E t \in TagsFor(SUPPORTED_BPRIM_TYPES), p \in Paths : CreateBprim(t, p)
    \/ \E t \in TagsFor(SUPPORTED_BPRIM_TYPES) : CreateFallbackBprim(t)
    \/ \E o \in Live("HdBprim") : DestroyBprim(o)

SpecPrims == InitPlain /\ [][NextPrims]_vars

LightTypes == {t \in TypeTags : IsLightType(t)}

\* the Sprim operations, called for light-category Sprims only
NextLights ==
    \/ \E t \in LightTypes, p \in Paths : CreateSprim(t, p)
    \/ \E t \in LightTypes : CreateFallbackSprim(t)
    \/ \E o \in Live("HdSprim") : DestroySprim(o)

SpecLights == InitPlain /\ [][NextLights]_vars

\* the facade's intersection test, for every result of the engine, and its
\* window policy setter, for every kind of argument
NextFacade ==
    \/ \E hit \in EngineHits : TestIntersection(hit)
    \/ \E obj \in PyObjects : SetOverrideWindowPolicy(obj)

SpecFacade == InitPlain /\ [][NextFacade]_vars

----------------------------------------------------------------------------
(* Properties *)

\* the class each supported type tag stands for
ExpectedClass(t) ==
    CASE t = "mesh"           -> "HdPrman_Mesh"
      [] t = "basisCurves"    -> "HdPrman_BasisCurves"
      [] t = "points"         -> "HdPrman_Points"
      [] t = "volume"         -> "HdPrman_Volume"
      [] t = "camera"         -> "HdPrmanCamera"
      [] t = "material"       -> "HdPrmanMaterial"
      [] t = "coordSys"       -> "HdPrmanCoordSys"
      [] t = "lightFilter"    -> "HdPrmanLightFilter"
      [] t \in {"light", "distantLight", "domeLight", "rectLight",
                "diskLight", "cylinderLight", "sphereLight", "pluginLight"}
                              -> "HdPrmanLight"
      [] t = "extComputation" -> "HdExtComputation"
      [] t = "prmanParams"    -> "HdPrmanParamsSetter"
      [] t = "renderBuffer"   -> "HdPrmanRenderBuffer"
      [] t \in {"openvdbAsset", "field3dAsset"} -> "HdPrman_Field"
      [] OTHER                -> "none"

\* C1: SetRenderSetting(key, value) raises the settings version by exactly 1
\* when key had no entry or its stored value was not equal to value, and
\* leaves it unchanged when the stored value was equal; afterwards the map
\* holds value under key and every other entry is as before.  No other
\* operation changes the version, and it never decreases.
C1_VersionCountsChanges ==
    [][/\ \A k \in Keys, v \in Values :
              (ret'.op = "SetRenderSetting" /\ SetRenderSetting(k, v)) =>
                  /\ settingsVersion' =
                         IF \/ k \notin DOMAIN settingsMap
                            \/ ~VtValueEq(settingsMap[k], v)
                         THEN settingsVersion + 1
                         ELSE settingsVersion
                  /\ k \in DOMAIN settingsMap'
                  /\ settingsMap'[k] = v
                  /\ DOMAIN settingsMap' = DOMAIN settingsMap \cup {k}
                  /\ \A j \in DOMAIN settingsMap \ {k} :
                         settingsMap'[j] = settingsMap[j]
       /\ settingsVersion' # settingsVersion =>
              \E k \in Keys, v \in Values : SetRenderSetting(k, v)
       /\ settingsVersion' >= settingsVersion]_vars

\* C1 witness: two calls have each changed a stored value, one of them to
\* a NaN, while the loop is rendering
C1_Witness ==
    /\ ret.op = "SetRenderSetting"
    /\ settingsVersion = 3
    /\ "enableInteractive" \in DOMAIN settingsMap
    /\ settingsMap["enableInteractive"] = VtNaN
    /\ isRendering

\* the client's last three calls were (k, v1), (k, v1), (k, v2), v1 # v2
SetSetChange(k, v1, v2) ==
    /\ Len(calls) = 3
    /\ calls[1].key = k /\ calls[1].value = v1
    /\ calls[2].key = k /\ calls[2].value = v1
    /\ calls[3].key = k /\ calls[3].value = v2
    /\ v1 # v2

\* C2 as stated: from any state, SetRenderSetting(k, v1) twice raises the
\* version exactly once over the two calls, the second call not at all, and
\* a following SetRenderSetting(k, v2) raises it once more.
C2_Original ==
    \A k \in Keys, v1 \in Values, v2 \in Values :
        SetSetChange(k, v1, v2) =>
            /\ calls[1].delta + calls[2].delta = 1
            /\ calls[2].delta = 0
            /\ calls[3].delta = 1

\* C2 amended: for v1 that compares equal to itself, the first call raises
\* the version once if k had no entry or held a value not equal to v1, and
\* not at all if k already held a value equal to v1; the second call does
\* not change it; a following SetRenderSetting(k, v2) raises it once more.
C2_Amended ==
    \A k \in Keys, v1 \in Values, v2 \in Values :
        (SetSetChange(k, v1, v2) /\ VtValueEq(v1, v1)) =>
            /\ calls[1].delta =
                   IF \/ calls[1].prior = Absent
                      \/ ~VtValueEq(calls[1].prior, v1)
                   THEN 1 ELSE 0
            /\ calls[2].delta = 0
            /\ calls[3].delta = 1

\* C2 witness: a key that already held v1 was set to v1 twice, then changed
C2_Witness ==
    \E k \in Keys, v1 \in Values, v2 \in Values :
        /\ SetSetChange(k, v1, v2)
        /\ VtValueEq(v1, v1)
        /\ calls[1].prior = v1
        /\ calls[1].delta = 0

\* live light instances of non-empty path, counted with multiplicity
LiveLightCount ==
    LET lights == {o \in BagToSet(prims) :
                       o.cls = "HdPrmanLight" /\ o.id # EmptyPath}
    IN  BagCardinality([o \in lights |-> prims[o]])

\* C3: after any sequence of CreateSprim, CreateFallbackSprim and
\* DestroySprim calls on light-category Sprims, the scene light count is the
\* number of live light instances whose path is not empty.
C3_LightCount == sceneLightCount = LiveLightCount

\* C3 witness: of two lights one was destroyed, the other is alive and
\* counted
C3_Witness ==
    /\ ret.op = "DestroySprim"
    /\ sceneLightCount = 1
    /\ BagCardinality(prims) = 1
    /\ \E o \in BagToSet(prims) : o.cls = "HdPrmanLight" /\ o.id # EmptyPath

\* what a factory of the given supported list and base class does with
\* tag t and path p
FactoryContract(t, p, supported, base) ==
    IF t \in Range(supported)
    THEN /\ ret'.obj = Prim(base, ExpectedClass(t), t, p)
         /\ ~ret'.err
    ELSE /\ ret'.obj = NullPrim
         /\ ret'.err
         /\ UNCHANGED <<env, settingDescriptors, settingsVars, primVars,
                        loopVars>>

\* C4: each of CreateRprim, CreateSprim and CreateBprim returns, for a tag
\* of its supported-type list, an object of the class matching the tag
\* carrying the given path, without a coding error; for any other tag it
\* reports a coding error, returns null and changes no delegate state.
C4_FactoryDispatch ==
    [][/\ ret'.op = "CreateRprim" =>
              \A t \in TagsFor(SUPPORTED_RPRIM_TYPES), p \in Paths :
                  CreateRprim(t, p) =>
                      FactoryContract(t, p, SUPPORTED_RPRIM_TYPES, "HdRprim")
       /\ ret'.op = "CreateSprim" =>
              \A t \in TagsFor(SUPPORTED_SPRIM_TYPES), p \in Paths :
                  CreateSprim(t, p) =>
                      FactoryContract(t, p, SUPPORTED_SPRIM_TYPES, "HdSprim")
       /\ ret'.op = "CreateBprim" =>
              \A t \in TagsFor(SUPPORTED_BPRIM_TYPES), p \in Paths :
                  CreateBprim(t, p) =>
                      FactoryContract(t, p, SUPPORTED_BPRIM_TYPES, "HdBprim")]_vars

\* C4 witness: a factory has refused a tag while a light it created is
\* alive and counted
C4_Witness ==
    /\ ret.op = "CreateBprim"
    /\ ret.err
    /\ ret.obj = NullPrim
    /\ sceneLightCount = 1
    /\ \E o \in BagToSet(prims) : o.cls = "HdPrmanLight"

\* C5: the fallback factories return, for a supported tag, an object of the
\* class matching the tag at the empty path, and for any other tag report a
\* coding error and return null; creating a fallback instance and
\* destroying an instance of empty path leave the light count unchanged.
C5_Fallback ==
    [][/\ ret'.op = "CreateFallbackSprim" =>
              \A t \in TagsFor(SUPPORTED_SPRIM_TYPES) :
                  CreateFallbackSprim(t) =>
                      /\ FactoryContract(t, EmptyPath, SUPPORTED_SPRIM_TYPES,
                                         "HdSprim")
                      /\ sceneLightCount' = sceneLightCount
       /\ ret'.op = "CreateFallbackBprim" =>
              \A t \in TagsFor(SUPPORTED_BPRIM_TYPES) :
                  CreateFallbackBprim(t) =>
                      /\ FactoryContract(t, EmptyPath, SUPPORTED_BPRIM_TYPES,
                                         "HdBprim")
                      /\ sceneLightCount' = sceneLightCount
       /\ \A o \in BagToSet(prims) :
              /\ (o.id = EmptyPath /\ DestroySprim(o)) =>
                     sceneLightCount' = sceneLightCount
              /\ (o.id = EmptyPath /\ DestroyBprim(o)) =>
                     sceneLightCount' = sceneLightCount]_vars

\* C5 witness: a fallback light was created next to a counted light, and
\* the count is still 1
C5_Witness ==
    /\ ret.op = "CreateFallbackSprim"
    /\ ret.obj.cls = "HdPrmanLight"
    /\ ret.obj.id = EmptyPath
    /\ sceneLightCount = 1
    /\ BagCardinality(prims) = 2

KeysOf(descs) == [i \in DOMAIN descs |-> descs[i].key]

\* C6: the descriptor list holds the five base entries in order, and with
\* quick integrate enabled the interactive integrator and its timeout
\* (default 200) directly after the integrator entry; no operation changes
\* the list.
C6_Descriptors ==
    /\ [](/\ KeysOf(settingDescriptors) =
                 IF env.quickIntegrate
                 THEN <<"integratorName", "interactiveIntegrator",
                        "interactiveIntegratorTimeout",
                        "convergedSamplesPerPixel", "convergedVariance",
                        "rileyVariant", "disableMotionBlur">>
                 ELSE <<"integratorName", "convergedSamplesPerPixel",
                        "convergedVariance", "rileyVariant",
                        "disableMotionBlur">>
          /\ env.quickIntegrate =>
                 settingDescriptors[3].defaultValue = VtInt("200"))
    /\ [][settingDescriptors' = settingDescriptors]_vars

\* C6 witness: the seven descriptors after settings were changed, a prim
\* created and a restart requested
C6_Witness ==
    /\ env.quickIntegrate
    /\ Len(settingDescriptors) = 7
    /\ settingsVersion > 1
    /\ prims # EmptyBag
    /\ sceneVersion > 0

\* the enableInteractive setting is false
NonInteractive ==
    /\ "enableInteractive" \in DOMAIN settingsMap
    /\ settingsMap["enableInteractive"] = VtBool(FALSE)

\* C7: with enableInteractive false, IsStopped() returns true, Stop returns
\* true for either blocking flag, Restart() returns false and
\* IsStopSupported() returns false; Stop and Restart leave the render loop
\* and the scene version alone.
C7_NonInteractive ==
    [][NonInteractive =>
           /\ IsStopped => ret'.val = TRUE
           /\ IsStopSupported => ret'.val = FALSE
           /\ \A blocking \in BOOLEAN :
                  Stop(blocking) => (ret'.val = TRUE /\ UNCHANGED loopVars)
           /\ Restart => (ret'.val = FALSE /\ UNCHANGED loopVars)]_vars

\* C7 witness: Restart was refused after earlier restarts were accepted
C7_Witness ==
    /\ NonInteractive
    /\ ret.op = "Restart"
    /\ ret.val = FALSE
    /\ sceneVersion > 0

\* C8: an interactive Restart() raises the scene version by exactly 1,
\* returns true and leaves the rendering state of the loop as it was;
\* rendering starts only when the render pass executes on a scene version
\* it has not rendered.
C8_Restart ==
    [][/\ (IsInteractive /\ Restart) =>
              /\ sceneVersion' = sceneVersion + 1
              /\ ret'.val = TRUE
              /\ isRendering' = isRendering
              /\ UNCHANGED <<stopRequest, lastRenderedVersion>>
       /\ (~isRendering /\ isRendering') =>
              (RenderPassExecute /\ lastRenderedVersion # sceneVersion)]_vars

\* C8 witness: Restart returned true while the loop is halted and the
\* render pass has not yet seen the new version
C8_Witness ==
    /\ ret.op = "Restart"
    /\ ret.val
    /\ ~isRendering
    /\ lastRenderedVersion >= 0
    /\ lastRenderedVersion < sceneVersion

\* C9: an interactive Stop(blocking) forwards the request with its flag and
\* returns the negation of the loop's is-rendering state read after it; a
\* blocking Stop returns true with the loop halted.
C9_Stop ==
    [][\A blocking \in BOOLEAN :
           (IsInteractive /\ Stop(blocking)) =>
               /\ stopRequest' = (IF blocking THEN "blocking"
                                  ELSE "nonblocking")
               /\ ret'.val = ~isRendering'
               /\ blocking => (ret'.val /\ ~isRendering')
               /\ UNCHANGED <<sceneVersion, lastRenderedVersion>>]_vars

\* C9 witness: a non-blocking Stop returned false, the loop still rendering
C9_Witness ==
    /\ ret.op = "Stop"
    /\ ret.val = FALSE
    /\ stopRequest = "nonblocking"
    /\ isRendering

\* C10: the last two fields of the facade's result are the path and index
\* of the first context entry, or the empty path and -1 for an empty
\* context; the first four fields are the engine's hit point, hit normal,
\* hit prim path and hit instance index.
C10_TopLevelInstancer ==
    pyResult # <<>> =>
        /\ Len(pyResult) = 6
        /\ pyResult[1] = engineHit.hitPoint
        /\ pyResult[2] = engineHit.hitNormal
        /\ pyResult[3] = engineHit.hitPrimPath
        /\ pyResult[4] = engineHit.hitInstanceIndex
        /\ IF engineHit.context = <<>>
           THEN pyResult[5] = EmptyPath /\ pyResult[6] = -1
           ELSE <<pyResult[5], pyResult[6]>> = engineHit.context[1]

\* C10 witness: a two-level context whose entries differ
C10_Witness ==
    /\ pyResult # <<>>
    /\ engineHit.context = <<<<"/pathA", 3>>, <<"/pathB", 7>>>>
    /\ pyResult[5] = "/pathA"
    /\ pyResult[6] = 3

\* C11: after a call of the scripting SetOverrideWindowPolicy the engine
\* holds the pair (true, p) when the argument was a policy value p, and a
\* pair whose first field is false when the argument was anything else,
\* None included.
C11_WindowPolicy ==
    pyObj # NoPyObj =>
        IF pyObj \in {PyPolicy(p) : p \in Policies}
        THEN overrideWindowPolicy = <<TRUE, pyObj.val>>
        ELSE overrideWindowPolicy[1] = FALSE

\* C11 witness: the setter was last called with None, after an intersection
\* test, and the engine holds no override
C11_Witness ==
    /\ pyObj = PyNone
    /\ overrideWindowPolicy[1] = FALSE
    /\ pyResult # <<>>

\* a step is the creation or the destruction of a light-category Sprim of
\* non-empty path
LightSprimStep ==
    \/ /\ ret'.op = "CreateSprim"
       /\ ret'.obj.cls = "HdPrmanLight"
       /\ ret'.obj.id # EmptyPath
    \/ /\ ret'.op = "DestroySprim"
       /\ \E o \in Live("HdSprim") :
              /\ prims' = Disown(o)
              /\ o.cls = "HdPrmanLight"
              /\ o.id # EmptyPath

\* C12: over any sequence of create and destroy calls on Sprims of all
\* supported types, only the creation or destruction of a light-category
\* Sprim of non-empty path changes the light count, and the count is the
\* number of live such lights, so it never drops below zero.
C12_OnlyLightsCount ==
    /\ [](sceneLightCount >= 0 /\ sceneLightCount = LiveLightCount)
    /\ [][sceneLightCount' # sceneLightCount => LightSprimStep]_vars

\* C13: whether the delegate is interactive is fixed at construction: no
\* step, a SetRenderSetting of the enableInteractive key included, changes
\* the result of IsInteractive(), which is the result of IsStopSupported()
\* and selects between the interactive and the trivial behaviour of Stop,
\* Restart and IsStopped, whether or not the render loop is running.
C13_StaticInteractive == [][IsInteractive' = IsInteractive]_vars

====
